---- MODULE Spec2Model ----
(***************************************************************************)
(* A model of the OBN advisor's configuration engine:                      *)
(*   ConfigScanner  (src/src/config-scanner.ts)  hasNestedKey,             *)
(*                  getNestedValue, isVersionAtLeast,                      *)
(*                  detectAppliedPatterns, findAvailableUpdates            *)
(*   PatternIndex   (src/unnamed/part_001)       isVersionCompatible       *)
(*                                                                         *)
(* Representation.  A JavaScript string is a sequence of symbols.  In a    *)
(* version string every symbol is one character ("2", ".", "+", "x"); in   *)
(* a configuration path or key a symbol is either the separator "." or a   *)
(* dot-free run of characters ("gateway").  A JavaScript value is a        *)
(* tagged record; an object keeps its own keys in insertion order.         *)
(*                                                                         *)
(* Specifications.  Spec: calls of detectAppliedPatterns and               *)
(* findAvailableUpdates on one scanner.  SpecPath: calls of hasNestedKey   *)
(* and getNestedValue.  SpecVersion: calls of the two version comparators. *)
(***************************************************************************)
EXTENDS Integers, Sequences, FiniteSets, TLC

VARIABLES
    config, patterns, version, call, ret,     \* a ConfigScanner and its caller
    obj, path, pcall, pret,                   \* a call of the path resolver
    installed, required, vcall, vret,         \* a call of a version comparator
    configPath,                               \* the scanner's one field
    given, first, interleaved,                \* a session of calls on one scanner
    now,                                      \* Date.now()
    githubToken,                              \* a LearningProposer's one field
    submitCall, submitRet,                    \* a call of submit and its outcome
    forkRequests, lastOk,                     \* requests sent to GitHub; the last
                                              \* submit that succeeded
    args, result,                             \* a call of handleCommand
    cache, cacheTime,                         \* a PatternIndex's two fields
    fetches,                                  \* the calls of fetch() on it
    latestFetched, overlapped                 \* the latest start of a fetch that
                                              \* returned a list; whether two
                                              \* calls were ever in flight at once

vars == <<config, patterns, version, call, ret,
          obj, path, pcall, pret, installed, required, vcall, vret,
          configPath, given, first, interleaved,
          now, githubToken, submitCall, submitRet, forkRequests, lastOk,
          args, result, cache, cacheTime, fetches, latestFetched, overlapped>>

scannerVars == <<config, patterns, version, call, ret>>
pathVars == <<obj, path, pcall, pret>>
versionVars == <<installed, required, vcall, vret>>
sessionVars == <<configPath, given, first, interleaved>>
proposerVars == <<githubToken, submitCall, submitRet, forkRequests, lastOk>>
advisorVars == <<args, result>>
indexVars == <<cache, cacheTime, fetches, latestFetched, overlapped>>
laterVars == <<sessionVars, now, proposerVars, advisorVars, indexVars>>

(***************************************************************************)
(* Bounds of the model.                                                    *)
(***************************************************************************)
MaxSegs == 2        \* segments of an enumerated version string
MaxPathLen == 2     \* segments of an enumerated configuration path
TreeDepth == 2      \* nesting below the root of an enumerated generic tree
MaxJobs == 2        \* entries of an enumerated cron.jobs mapping
MaxWeeks == 1       \* weeks the proposer's clock runs for
MaxSubmits == 2     \* requests a proposer sends to GitHub
MaxOverlap == 2     \* calls of fetch() in flight at once
MaxHalfDays == 3    \* half days the index's clock runs for
MaxSkills == 2      \* installed skills an audit reports on

(***************************************************************************)
(* JavaScript values.                                                      *)
(***************************************************************************)
Undefined == [t |-> "undefined"]
Null == [t |-> "null"]
Bool(b) == [t |-> "boolean", b |-> b]
Num(n) == [t |-> "number", n |-> n]
Str(s) == [t |-> "string", s |-> s]
Arr(items) == [t |-> "array", items |-> items]
Obj(ks, vs) == [t |-> "object", ks |-> ks, vs |-> vs]
Fn == [t |-> "function"]

EmptyObj == Obj(<<>>, <<>>)
Obj1(k, v) == Obj(<<k>>, <<v>>)
Obj2(k1, v1, k2, v2) == Obj(<<k1, k2>>, <<v1, v2>>)

\* A key or path made of one dot-free symbol, and the separator.
K(s) == <<s>>
Dot == "."
P2(a, b) == <<a, Dot, b>>
P3(a, b, c) == <<a, Dot, b, Dot, c>>
P4(a, b, c, d) == <<a, Dot, b, Dot, c, Dot, d>>

\* typeof v === 'object', for a v that is neither null nor undefined.
IsObjectType(v) == v.t \in {"object", "array"}

\* Property names every object and array inherits from its prototype.
InheritedKeys == {K("constructor")}

\* The array index a key denotes, or -1.
IndexKeys == <<K("0"), K("1"), K("2")>>
IndexOf(key) ==
    IF \E i \in 1..Len(IndexKeys) : IndexKeys[i] = key
    THEN (CHOOSE i \in 1..Len(IndexKeys) : IndexKeys[i] = key) - 1
    ELSE -1

\* current[key], for an object or an array.
GetProp(current, key) ==
    IF current.t = "object"
    THEN IF \E i \in 1..Len(current.ks) : current.ks[i] = key
         THEN current.vs[CHOOSE i \in 1..Len(current.ks) : current.ks[i] = key]
         ELSE IF key \in InheritedKeys THEN Fn ELSE Undefined
    ELSE IF IndexOf(key) >= 0 /\ IndexOf(key) < Len(current.items)
         THEN current.items[IndexOf(key) + 1]
         ELSE IF key = K("length") THEN Num(Len(current.items))
         ELSE IF key \in InheritedKeys THEN Fn ELSE Undefined

\* s.split('.'): the runs of symbols between the separators, empty runs kept.
RECURSIVE SplitFrom(_, _, _)
SplitFrom(s, i, cur) ==
    IF i > Len(s) THEN <<cur>>
    ELSE IF s[i] = Dot THEN <<cur>> \o SplitFrom(s, i + 1, <<>>)
    ELSE SplitFrom(s, i + 1, Append(cur, s[i]))

Split(s) == SplitFrom(s, 1, <<>>)

(***************************************************************************)
(* ConfigScanner.hasNestedKey and ConfigScanner.getNestedValue.            *)
(***************************************************************************)
\* Mutant: the final test is on the value's truthiness, not on undefined.
RECURSIVE hasNestedKeyLoop_Truthy(_, _)
hasNestedKeyLoop_Truthy(current, keys) ==
    IF keys = <<>>
    THEN current \notin {Undefined, Null, Bool(FALSE), Num(0), Str(<<>>)}
    ELSE IF current = Null \/ current = Undefined \/ ~IsObjectType(current)
    THEN FALSE
    ELSE hasNestedKeyLoop_Truthy(GetProp(current, Head(keys)), Tail(keys))

RECURSIVE hasNestedKeyLoop(_, _)
hasNestedKeyLoop(current, keys) ==
    IF keys = <<>> THEN current # Undefined
    ELSE IF current = Null \/ current = Undefined \/ ~IsObjectType(current)
    THEN FALSE
    ELSE hasNestedKeyLoop(GetProp(current, Head(keys)), Tail(keys))

hasNestedKey(o, p) == hasNestedKeyLoop(o, Split(p))

RECURSIVE getNestedValueLoop(_, _)
getNestedValueLoop(current, keys) ==
    IF keys = <<>> THEN current
    ELSE IF current = Null \/ current = Undefined \/ ~IsObjectType(current)
    THEN Undefined
    ELSE getNestedValueLoop(GetProp(current, Head(keys)), Tail(keys))

getNestedValue(o, p) == getNestedValueLoop(o, Split(p))

(***************************************************************************)
(* Version strings and the two comparators.                                *)
(***************************************************************************)
Digits == <<"0", "1", "2", "3", "4", "5", "6", "7", "8", "9">>
IsDigit(c) == \E i \in 1..10 : Digits[i] = c
DigitVal(c) == (CHOOSE i \in 1..10 : Digits[i] = c) - 1

RECURSIVE DecimalValue(_)
DecimalValue(ds) ==
    IF ds = <<>> THEN 0
    ELSE 10 * DecimalValue(SubSeq(ds, 1, Len(ds) - 1)) + DigitVal(ds[Len(ds)])

NaN == [nan |-> TRUE, n |-> 0]
Finite(n) == [nan |-> FALSE, n |-> n]

\* Number(tok) on the model's alphabet: "" is 0, digits with an optional
\* leading "+" are their decimal value, anything else is NaN.
NumberOf(tok) ==
    LET body == IF tok # <<>> /\ tok[1] = "+" THEN Tail(tok) ELSE tok
    IN  IF tok = <<>> THEN Finite(0)
        ELSE IF body # <<>> /\ \A i \in 1..Len(body) : IsDigit(body[i])
        THEN Finite(DecimalValue(body))
        ELSE NaN

\* s.split('.').map(Number)
ParseParts(s) == LET segs == Split(s) IN [i \in 1..Len(segs) |-> NumberOf(segs[i])]

\* parts[i] || 0, with i counted from 1: undefined, NaN and 0 all give 0.
OrZero(parts, i) ==
    IF i > Len(parts) THEN 0
    ELSE IF parts[i].nan THEN 0
    ELSE parts[i].n

Max(a, b) == IF a >= b THEN a ELSE b

\* Mutants of the loop: all components equal gives false; the loop stops at
\* the installed string's length; components are compared without "|| 0", so
\* that a NaN or missing component compares as neither larger nor smaller.
RECURSIVE isVersionAtLeastLoop_EqualIsFalse(_, _, _)
isVersionAtLeastLoop_EqualIsFalse(a, b, i) ==
    IF i > Max(Len(a), Len(b)) THEN FALSE
    ELSE IF OrZero(a, i) > OrZero(b, i) THEN TRUE
    ELSE IF OrZero(a, i) < OrZero(b, i) THEN FALSE
    ELSE isVersionAtLeastLoop_EqualIsFalse(a, b, i + 1)

RECURSIVE isVersionAtLeastLoop_InstalledLength(_, _, _)
isVersionAtLeastLoop_InstalledLength(a, b, i) ==
    IF i > Len(a) THEN TRUE
    ELSE IF OrZero(a, i) > OrZero(b, i) THEN TRUE
    ELSE IF OrZero(a, i) < OrZero(b, i) THEN FALSE
    ELSE isVersionAtLeastLoop_InstalledLength(a, b, i + 1)

RECURSIVE isVersionAtLeastLoop_NoOrZero(_, _, _)
isVersionAtLeastLoop_NoOrZero(a, b, i) ==
    IF i > Max(Len(a), Len(b)) THEN TRUE
    ELSE IF i > Len(a) \/ i > Len(b) \/ a[i].nan \/ b[i].nan
    THEN isVersionAtLeastLoop_NoOrZero(a, b, i + 1)
    ELSE IF a[i].n > b[i].n THEN TRUE
    ELSE IF a[i].n < b[i].n THEN FALSE
    ELSE isVersionAtLeastLoop_NoOrZero(a, b, i + 1)

\* ConfigScanner.isVersionAtLeast: the loop from index i on, then the call.
RECURSIVE isVersionAtLeastLoop(_, _, _)
isVersionAtLeastLoop(a, b, i) ==
    IF i > Max(Len(a), Len(b)) THEN TRUE
    ELSE IF OrZero(a, i) > OrZero(b, i) THEN TRUE
    ELSE IF OrZero(a, i) < OrZero(b, i) THEN FALSE
    ELSE isVersionAtLeastLoop(a, b, i + 1)

isVersionAtLeast(inst, req) ==
    isVersionAtLeastLoop(ParseParts(inst), ParseParts(req), 1)

\* Mutant: the "+" is not removed.
ReplaceFirstPlus_Kept(s) == s

\* required.replace('+', ''): the first "+" removed, if there is one.
ReplaceFirstPlus(s) ==
    IF \E i \in 1..Len(s) : s[i] = "+"
    THEN LET i == CHOOSE j \in 1..Len(s) :
                      s[j] = "+" /\ \A k \in 1..(j - 1) : s[k] # "+"
         IN  SubSeq(s, 1, i - 1) \o SubSeq(s, i + 1, Len(s))
    ELSE s

\* PatternIndex.isVersionCompatible: the loop from index i on, then the call.
RECURSIVE isVersionCompatibleLoop(_, _, _)
isVersionCompatibleLoop(installedParts, requiredParts, i) ==
    IF i > Max(Len(installedParts), Len(requiredParts)) THEN TRUE
    ELSE LET a == OrZero(installedParts, i)
             b == OrZero(requiredParts, i)
         IN  IF a > b THEN TRUE
             ELSE IF a < b THEN FALSE
             ELSE isVersionCompatibleLoop(installedParts, requiredParts, i + 1)

isVersionCompatible(inst, req) ==
    LET clean == ReplaceFirstPlus(req)
    IN  isVersionCompatibleLoop(ParseParts(inst), ParseParts(clean), 1)

(***************************************************************************)
(* ConfigScanner.detectAppliedPatterns.                                    *)
(***************************************************************************)
\* !v, negated: the values an 'if (v)' accepts.
Truthy(v) == v \notin {Undefined, Null, Bool(FALSE), Num(0), Str(<<>>)}

\* Object.entries(v), as name/value pairs, and Object.values(v).
ObjectEntries(v) ==
    IF v.t = "object"
    THEN [i \in 1..Len(v.ks) |-> [name |-> v.ks[i], value |-> v.vs[i]]]
    ELSE IF v.t = "array"
    THEN [i \in 1..Len(v.items) |-> [name |-> IndexKeys[i], value |-> v.items[i]]]
    ELSE IF v.t = "string"
    THEN [i \in 1..Len(v.s) |-> [name |-> IndexKeys[i], value |-> Str(<<v.s[i]>>)]]
    ELSE <<>>

ObjectValues(v) == [i \in 1..Len(ObjectEntries(v)) |-> ObjectEntries(v)[i].value]

Returned(v) == [threw |-> FALSE, value |-> v]
Threw == [threw |-> TRUE, value |-> FALSE]

\* j.isolated: a TypeError when j is null or undefined, the property of an
\* object or array, undefined on any other value.
ReadIsolated(j) ==
    IF j = Null \/ j = Undefined THEN [threw |-> TRUE, value |-> Undefined]
    ELSE IF IsObjectType(j) THEN Returned(GetProp(j, K("isolated")))
    ELSE Returned(Undefined)

\* Object.values(jobs).some((j) => j.isolated === true), from element i on.
RECURSIVE SomeIsolated(_, _)
SomeIsolated(js, i) ==
    IF i > Len(js) THEN Returned(FALSE)
    ELSE IF ReadIsolated(js[i]).threw THEN Threw
    ELSE IF ReadIsolated(js[i]).value = Bool(TRUE) THEN Returned(TRUE)
    ELSE SomeIsolated(js, i + 1)

HostAllInterfaces == <<"0", ".", "0", ".", "0", ".", "0">>

GatewayHostIsSet(c) ==
    hasNestedKey(c, P2("gateway", "host"))
        /\ getNestedValue(c, P2("gateway", "host")) # Str(HostAllInterfaces)

UrlAllowlistConfigured(c) == hasNestedKey(c, P3("gateway", "files", "urlAllowlist"))

HookSessionKeyRejected(c) ==
    hasNestedKey(c, P2("hooks", "allowRequestSessionKey"))
        /\ getNestedValue(c, P2("hooks", "allowRequestSessionKey")) = Bool(FALSE)

CronJobsIsolated(c) ==
    LET jobs == getNestedValue(c, P2("cron", "jobs"))
    IN  IF ~Truthy(jobs) THEN Returned(FALSE)
        ELSE SomeIsolated(ObjectValues(jobs), 1)

GuardrailsEnabled(c) ==
    hasNestedKey(c, P4("agents", "defaults", "guardrails", "enabled"))
        /\ getNestedValue(c, P4("agents", "defaults", "guardrails", "enabled")) = Bool(TRUE)

\* The detection rules, in declaration order; check names the rule's predicate.
detectionRules == <<
    [check |-> "gatewayHost", patternSlug |-> "gateway-hardening",
     detectedVia |-> "gateway.host is not 0.0.0.0"],
    [check |-> "urlAllowlist", patternSlug |-> "ssrf-defense",
     detectedVia |-> "gateway.files.urlAllowlist configured"],
    [check |-> "allowRequestSessionKey", patternSlug |-> "hook-security",
     detectedVia |-> "hooks.allowRequestSessionKey is false"],
    [check |-> "cronIsolated", patternSlug |-> "cron-reliability-hardening",
     detectedVia |-> "cron jobs have isolated: true"],
    [check |-> "guardrails", patternSlug |-> "native-guardrails-integration",
     detectedVia |-> "agents.defaults.guardrails.enabled is true"] >>

\* rule.check(config): a boolean, or an exception.
RuleCheck(rule, c) ==
    CASE rule.check = "gatewayHost" -> Returned(GatewayHostIsSet(c))
      [] rule.check = "urlAllowlist" -> Returned(UrlAllowlistConfigured(c))
      [] rule.check = "allowRequestSessionKey" -> Returned(HookSessionKeyRejected(c))
      [] rule.check = "cronIsolated" -> CronJobsIsolated(c)
      [] rule.check = "guardrails" -> Returned(GuardrailsEnabled(c))

\* patterns.find((p) => p.slug === slug): the index of the first match, or 0.
FindPattern(ps, slug) ==
    IF \E i \in 1..Len(ps) : ps[i].slug = slug
    THEN CHOOSE i \in 1..Len(ps) :
            ps[i].slug = slug /\ \A j \in 1..(i - 1) : ps[j].slug # slug
    ELSE 0

\* The loop over the rules from rule i on, with the entries pushed so far.
RECURSIVE detectLoop(_, _, _, _)
detectLoop(c, ps, i, applied) ==
    IF i > Len(detectionRules) THEN [kind |-> "returned", list |-> applied]
    ELSE LET rule == detectionRules[i]
             checked == RuleCheck(rule, c)
             found == FindPattern(ps, rule.patternSlug)
         IN  IF checked.threw THEN [kind |-> "threw", list |-> <<>>]
             ELSE IF checked.value /\ found # 0
             THEN detectLoop(c, ps, i + 1,
                     Append(applied, [title |-> ps[found].title,
                                      slug |-> rule.patternSlug,
                                      detectedVia |-> rule.detectedVia]))
             ELSE detectLoop(c, ps, i + 1, applied)

\* Mutant: the scanner keeps the list it returned last and returns it again,
\* whatever the arguments.
detectAppliedPatterns_Memo(c, ps) ==
    IF call = "detectAppliedPatterns" /\ ret.kind = "returned" THEN ret
    ELSE detectLoop(c, ps, 1, <<>>)

detectAppliedPatterns(c, ps) == detectLoop(c, ps, 1, <<>>)

(***************************************************************************)
(* ConfigScanner.findAvailableUpdates.  A reason or a configDiff is the    *)
(* sequence of the pieces of text it is put together from; the dash of the *)
(* source's reasons is written "-".                                        *)
(***************************************************************************)
RequiredForSsrfAndHooks == <<"2", "0", "2", "6", ".", "2", ".", "1", "2">>

SsrfUpdate ==
    [patternTitle |-> "SSRF Defense",
     patternSlug |-> "ssrf-defense",
     reason |-> <<"v2026.2.12 adds SSRF deny policy - you should configure urlAllowlist">>,
     configDiff |-> <<"+ \"gateway\": {\n+   \"files\": {\n+     \"urlAllowlist\": [\"your-cdn.example.com\"]\n+   },\n+   \"images\": {\n+     \"urlAllowlist\": [\"i.imgur.com\"]\n+   }\n+ }">>]

HookUpdate ==
    [patternTitle |-> "Hook Security",
     patternSlug |-> "hook-security",
     reason |-> <<"v2026.2.12 rejects sessionKey overrides by default - configure defaultSessionKey">>,
     configDiff |-> <<"+ \"hooks\": {\n+   \"defaultSessionKey\": \"hooks:incoming\",\n+   \"allowedSessionKeyPrefixes\": [\"hook:\"],\n+   \"allowRequestSessionKey\": false\n+ }">>]

\* Object.entries(jobs).filter(([, j]) => j.isolated !== true), from entry i
\* on: every entry is visited.
RECURSIVE FilterNonIsolated(_, _, _)
FilterNonIsolated(es, i, kept) ==
    IF i > Len(es) THEN Returned(kept)
    ELSE IF ReadIsolated(es[i].value).threw THEN [threw |-> TRUE, value |-> <<>>]
    ELSE IF ReadIsolated(es[i].value).value # Bool(TRUE)
    THEN FilterNonIsolated(es, i + 1, Append(kept, es[i]))
    ELSE FilterNonIsolated(es, i + 1, kept)

\* nonIsolated.map(([name]) => '  "${name}": {...}').join('\n')
RECURSIVE CronDiff(_)
CronDiff(es) ==
    IF es = <<>> THEN <<>>
    ELSE <<"  \"">> \o es[1].name \o <<"\": {\n+   \"isolated\": true\n  }">>
            \o (IF Len(es) > 1 THEN <<"\n">> ELSE <<>>) \o CronDiff(Tail(es))

CronUpdate(nonIsolated) ==
    [patternTitle |-> "Cron Reliability Hardening",
     patternSlug |-> "cron-reliability-hardening",
     reason |-> <<ToString(Len(nonIsolated)),
                  " cron job(s) missing isolated: true - errors can cascade">>,
     configDiff |-> CronDiff(nonIsolated)]

GatewayUpdate ==
    [patternTitle |-> "Gateway Hardening",
     patternSlug |-> "gateway-hardening",
     reason |-> <<"Gateway is bound to 0.0.0.0 (all interfaces) - should be 127.0.0.1 or Tailscale IP">>,
     configDiff |-> <<"- \"gateway\": { \"host\": \"0.0.0.0\" }\n+ \"gateway\": { \"host\": \"127.0.0.1\" }">>]

\* Mutant: the version gate of the SSRF check is left out.
SsrfGap_NoVersionGate(c, v) == ~hasNestedKey(c, P3("gateway", "files", "urlAllowlist"))

SsrfGap(c, v) ==
    isVersionAtLeast(v, RequiredForSsrfAndHooks)
        /\ ~hasNestedKey(c, P3("gateway", "files", "urlAllowlist"))

HookGap(c, v) ==
    /\ isVersionAtLeast(v, RequiredForSsrfAndHooks)
    /\ hasNestedKey(c, <<"hooks">>)
    /\ ~hasNestedKey(c, P2("hooks", "defaultSessionKey"))

GatewayGap(c) == getNestedValue(c, P2("gateway", "host")) = Str(HostAllInterfaces)

\* The body of findAvailableUpdates: the four checks in order; ps is unused.
findAvailableUpdates(c, ps, v) ==
    LET u1 == IF SsrfGap(c, v) THEN <<SsrfUpdate>> ELSE <<>>
        u2 == IF HookGap(c, v) THEN Append(u1, HookUpdate) ELSE u1
        jobs == getNestedValue(c, P2("cron", "jobs"))
        nonIsolated == IF Truthy(jobs) THEN FilterNonIsolated(ObjectEntries(jobs), 1, <<>>)
                       ELSE Returned(<<>>)
        u3 == IF Len(nonIsolated.value) > 0
              THEN Append(u2, CronUpdate(nonIsolated.value)) ELSE u2
        u4 == IF GatewayGap(c) THEN Append(u3, GatewayUpdate) ELSE u3
    IN  IF nonIsolated.threw THEN [kind |-> "threw", list |-> <<>>]
        ELSE [kind |-> "returned", list |-> u4]

(***************************************************************************)
(* The version strings the comparators are called with.                    *)
(***************************************************************************)
RECURSIVE Join(_)
Join(segs) ==
    IF Len(segs) = 0 THEN <<>>
    ELSE IF Len(segs) = 1 THEN segs[1]
    ELSE segs[1] \o <<Dot>> \o Join(Tail(segs))

\* Segments: 0, 2, 10 and a token that is not a number.
Tokens == {<<"0">>, <<"2">>, <<"1", "0">>, <<"x">>}
TokenSeqs(n) == UNION {[1..k -> Tokens] : k \in 1..n}
EnumVersions == {Join(ts) : ts \in TokenSeqs(MaxSegs)}

Y2026 == <<"2", "0", "2", "6">>
V2026_2 == Join(<<Y2026, <<"2">>>>)
V2026_2_0 == Join(<<Y2026, <<"2">>, <<"0">>>>)
V2026_2_11 == Join(<<Y2026, <<"2">>, <<"1", "1">>>>)
V2026_2_12 == Join(<<Y2026, <<"2">>, <<"1", "2">>>>)
V2026_3_0 == Join(<<Y2026, <<"3">>, <<"0">>>>)
ScenarioVersions == {V2026_2, V2026_2_0, V2026_2_11, V2026_2_12, V2026_3_0}

Versions == EnumVersions \cup ScenarioVersions

\* R + "+"
WithPlus(r) == r \o <<"+">>
RequiredSpecs == Versions \cup {WithPlus(r) : r \in Versions}

NoVersion == <<>>
NoTree == Undefined
NoPath == <<>>
NoRet == [kind |-> "none"]

\* The values of the variables the scanner's specifications do not use.
LaterIdle ==
    /\ configPath = NoPath /\ given = NoRet /\ first = NoRet /\ interleaved = FALSE
    /\ now = 0
    /\ githubToken = Undefined /\ submitCall = NoRet /\ submitRet = NoRet
    /\ forkRequests = 0 /\ lastOk = NoRet
    /\ args = <<>> /\ result = NoRet
    /\ cache = Null /\ cacheTime = 0 /\ fetches = <<>>
    /\ latestFetched = NoRet /\ overlapped = FALSE

InitVersion ==
    /\ installed \in Versions
    /\ required \in RequiredSpecs
    /\ vcall = "none"
    /\ vret = FALSE
    /\ config = NoTree /\ patterns = <<>> /\ version = NoVersion
    /\ call = "none" /\ ret = NoRet
    /\ obj = NoTree /\ path = NoPath /\ pcall = "none" /\ pret = NoRet
    /\ LaterIdle

\* A call of ConfigScanner.isVersionAtLeast(installed, required).
CallIsVersionAtLeast ==
    /\ vcall' = "isVersionAtLeast"
    /\ vret' = isVersionAtLeast(installed, required)
    /\ UNCHANGED <<installed, required, scannerVars, pathVars, laterVars>>

\* A call of PatternIndex.isVersionCompatible(installed, required).
CallIsVersionCompatible ==
    /\ vcall' = "isVersionCompatible"
    /\ vret' = isVersionCompatible(installed, required)
    /\ UNCHANGED <<installed, required, scannerVars, pathVars, laterVars>>

NextVersion == CallIsVersionAtLeast \/ CallIsVersionCompatible

SpecVersion == InitVersion /\ [][NextVersion]_vars

(***************************************************************************)
(* The trees and paths the path resolver is called with.                   *)
(***************************************************************************)
Leaves == {Null, Bool(FALSE), Num(0), Str(<<"s">>), Arr(<<>>), EmptyObj}
TreeKeys == {K("a")}

RECURSIVE Values(_)
Values(d) ==
    IF d = 0 THEN Leaves
    ELSE Values(d - 1)
            \cup {Obj1(k, v) : k \in TreeKeys, v \in Values(d - 1)}
            \cup {Arr(<<v>>) : v \in Values(d - 1)}

\* The root of a configuration is an object (the result of JSON.parse, or {}).
Trees == {EmptyObj} \cup {Obj1(k, v) : k \in TreeKeys, v \in Values(TreeDepth - 1)}

\* Path segments: a key the trees use, a key they never use, an array index,
\* "length", an inherited property name, and the empty segment.
Segments == {K("a"), K("b"), K("0"), K("length"), K("constructor"), <<>>}
Paths == {Join(ss) : ss \in UNION {[1..n -> Segments] : n \in 1..MaxPathLen}}

InitPath ==
    /\ obj \in Trees
    /\ path \in Paths
    /\ pcall = "none"
    /\ pret = NoRet
    /\ config = NoTree /\ patterns = <<>> /\ version = NoVersion
    /\ call = "none" /\ ret = NoRet
    /\ installed = NoVersion /\ required = NoVersion
    /\ vcall = "none" /\ vret = FALSE
    /\ LaterIdle

\* A call of ConfigScanner.hasNestedKey(obj, path).
CallHasNestedKey ==
    /\ pcall' = "hasNestedKey"
    /\ pret' = [kind |-> "boolean", b |-> hasNestedKey(obj, path)]
    /\ UNCHANGED <<obj, path, scannerVars, versionVars, laterVars>>

\* A call of ConfigScanner.getNestedValue(obj, path).
CallGetNestedValue ==
    /\ pcall' = "getNestedValue"
    /\ pret' = [kind |-> "value", v |-> getNestedValue(obj, path)]
    /\ UNCHANGED <<obj, path, scannerVars, versionVars, laterVars>>

NextPath == CallHasNestedKey \/ CallGetNestedValue

SpecPath == InitPath /\ [][NextPath]_vars

(***************************************************************************)
(* The configurations, catalogs and versions the scanner is called with.   *)
(***************************************************************************)
Entry(k, v) == [name |-> k, value |-> v]
ObjFromEntries(es) ==
    Obj([i \in 1..Len(es) |-> es[i].name], [i \in 1..Len(es) |-> es[i].value])

\* A section that is Undefined is left out of the configuration.
Section(k, v) == IF v = Undefined THEN <<>> ELSE <<Entry(K(k), v)>>
MkConfig(g, h, c, a) ==
    ObjFromEntries(Section("gateway", g) \o Section("hooks", h)
                      \o Section("cron", c) \o Section("agents", a))

HostLoopback == <<"1", "2", "7", ".", "0", ".", "0", ".", "1">>
Isolated(b) == Obj1(K("isolated"), Bool(b))

GatewayOpts ==
    { Undefined,
      Obj1(K("host"), Str(HostAllInterfaces)),
      Obj1(K("host"), Str(HostLoopback)),
      Obj1(K("host"), Null),
      Obj2(K("host"), Str(HostAllInterfaces),
           K("files"), Obj1(K("urlAllowlist"), Arr(<<>>))) }

HooksOpts ==
    { Undefined, EmptyObj,
      Obj1(K("allowRequestSessionKey"), Bool(FALSE)),
      Obj2(K("defaultSessionKey"), Str(<<"hooks:incoming">>),
           K("allowRequestSessionKey"), Bool(TRUE)) }

AgentsOpts ==
    { Undefined,
      Obj1(K("defaults"), Obj1(K("guardrails"), Obj1(K("enabled"), Bool(TRUE)))),
      Obj1(K("defaults"), Obj1(K("guardrails"), Obj1(K("enabled"), Bool(FALSE)))) }

\* cron.jobs: a mapping of up to MaxJobs jobs, each null, isolated or not
\* isolated; or null, a string, a mapping to a scalar or to a job without
\* "isolated".
JobNames == <<K("a"), K("b"), K("c")>>
JobValues == {Null, Isolated(TRUE), Isolated(FALSE)}
JobMaps ==
    UNION {{Obj(SubSeq(JobNames, 1, n), vs) : vs \in [1..n -> JobValues]} :
              n \in 0..MaxJobs}
JobsOpts ==
    JobMaps \cup {Null, Str(<<"a", "b">>), Obj1(K("a"), Num(5)), Obj1(K("a"), EmptyObj)}
CronOpts == {Undefined, EmptyObj} \cup {Obj1(K("jobs"), j) : j \in JobsOpts}

Configs ==
    {MkConfig(g, h, c, a) : g \in GatewayOpts, h \in HooksOpts,
                            c \in CronOpts, a \in AgentsOpts}

Pattern(slug, title) == [slug |-> slug, title |-> title]
CatalogAll ==
    << Pattern("native-guardrails-integration", "Native Guardrails Integration"),
       Pattern("cron-reliability-hardening", "Cron Reliability Hardening"),
       Pattern("hook-security", "Hook Security"),
       Pattern("ssrf-defense", "SSRF Defense"),
       Pattern("gateway-hardening", "Gateway Hardening") >>
CatalogSome ==
    << Pattern("cron-reliability-hardening", "Cron Reliability Hardening"),
       Pattern("prompt-injection-defense", "Prompt Injection Defense"),
       Pattern("gateway-hardening", "Gateway Hardening"),
       Pattern("cron-reliability-hardening", "Cron Reliability Hardening (old)") >>
Catalogs == {<<>>, CatalogAll, CatalogSome}

Garbled == <<"x">>
OlderVersions == {V2026_2_11, Garbled}
GatedVersions == {V2026_2_12, V2026_3_0}
ScannerVersions == OlderVersions \cup GatedVersions

Init ==
    /\ config \in Configs
    /\ patterns \in Catalogs
    /\ version \in ScannerVersions
    /\ call = "none"
    /\ ret = NoRet
    /\ obj = NoTree /\ path = NoPath /\ pcall = "none" /\ pret = NoRet
    /\ installed = NoVersion /\ required = NoVersion
    /\ vcall = "none" /\ vret = FALSE
    /\ LaterIdle

\* scanner.detectAppliedPatterns(config, patterns)
DetectAppliedPatterns ==
    /\ call' = "detectAppliedPatterns"
    /\ ret' = detectAppliedPatterns(config, patterns)
    /\ UNCHANGED <<config, patterns, version, pathVars, versionVars, laterVars>>

\* Mutant: the gateway recommendation is written into the tree as well.
FindAvailableUpdates_Applies ==
    /\ call' = "findAvailableUpdates"
    /\ ret' = findAvailableUpdates(config, patterns, version)
    /\ config' = IF GatewayGap(config)
                 THEN Obj(config.ks,
                          [i \in 1..Len(config.ks) |->
                              IF config.ks[i] = K("gateway")
                              THEN Obj1(K("host"), Str(HostLoopback))
                              ELSE config.vs[i]])
                 ELSE config
    /\ UNCHANGED <<patterns, version, pathVars, versionVars, laterVars>>

\* scanner.findAvailableUpdates(config, patterns, version)
FindAvailableUpdates ==
    /\ call' = "findAvailableUpdates"
    /\ ret' = findAvailableUpdates(config, patterns, version)
    /\ UNCHANGED <<config, patterns, version, pathVars, versionVars, laterVars>>

Next == DetectAppliedPatterns \/ FindAvailableUpdates

Spec == Init /\ [][Next]_vars

(***************************************************************************)
(* A session: one ConfigScanner, called again and again with arguments     *)
(* that change from call to call.  config, patterns and version hold the   *)
(* arguments of the latest call.  given is one call (method and            *)
(* arguments) picked beforehand, first is what the first such call gave,   *)
(* and interleaved says a different call was made after it.                *)
(***************************************************************************)
ConfigPaths == {<<"openclaw", Dot, "json">>, <<"absent", Dot, "json">>}

SessionConfigs ==
    {MkConfig(g, Undefined, c, Undefined) :
        g \in {Undefined, Obj1(K("host"), Str(HostAllInterfaces))},
        c \in {Undefined,
               Obj1(K("jobs"), Obj2(K("a"), Isolated(TRUE), K("b"), Isolated(FALSE))),
               Obj1(K("jobs"), Obj1(K("a"), Null))}}
SessionCatalogs == {<<>>, CatalogSome}
SessionVersions == {V2026_2_11, V2026_2_12}

DetectCall(c, ps) ==
    [call |-> "detectAppliedPatterns", config |-> c, patterns |-> ps,
     version |-> NoVersion]
RecommendCall(c, ps, v) ==
    [call |-> "findAvailableUpdates", config |-> c, patterns |-> ps, version |-> v]
SessionCalls ==
    {DetectCall(c, ps) : c \in SessionConfigs, ps \in SessionCatalogs}
        \cup {RecommendCall(c, ps, v) :
                 c \in SessionConfigs, ps \in SessionCatalogs, v \in SessionVersions}

\* new ConfigScanner(configPath)
InitSession ==
    /\ configPath \in ConfigPaths
    /\ given \in SessionCalls
    /\ first = NoRet
    /\ interleaved = FALSE
    /\ config = NoTree /\ patterns = <<>> /\ version = NoVersion
    /\ call = "none" /\ ret = NoRet
    /\ obj = NoTree /\ path = NoPath /\ pcall = "none" /\ pret = NoRet
    /\ installed = NoVersion /\ required = NoVersion
    /\ vcall = "none" /\ vret = FALSE
    /\ now = 0
    /\ githubToken = Undefined /\ submitCall = NoRet /\ submitRet = NoRet
    /\ forkRequests = 0 /\ lastOk = NoRet
    /\ args = <<>> /\ result = NoRet
    /\ cache = Null /\ cacheTime = 0 /\ fetches = <<>>
    /\ latestFetched = NoRet /\ overlapped = FALSE

\* The bookkeeping of a call k that gave r.
Noted(k, r) ==
    /\ call' = k.call /\ config' = k.config /\ patterns' = k.patterns
    /\ version' = k.version
    /\ ret' = r
    /\ first' = IF k = given /\ first = NoRet THEN r ELSE first
    /\ interleaved' = (interleaved \/ (first # NoRet /\ k # given))

\* scanner.detectAppliedPatterns(c, ps), with any tree and catalog
SessionDetect ==
    \E c \in SessionConfigs, ps \in SessionCatalogs :
        /\ Noted(DetectCall(c, ps), detectAppliedPatterns(c, ps))
        /\ UNCHANGED <<configPath, given, pathVars, versionVars, now, proposerVars,
                       advisorVars, indexVars>>

\* scanner.findAvailableUpdates(c, ps, v), with any tree, catalog and version
SessionRecommend ==
    \E c \in SessionConfigs, ps \in SessionCatalogs, v \in SessionVersions :
        /\ Noted(RecommendCall(c, ps, v), findAvailableUpdates(c, ps, v))
        /\ UNCHANGED <<configPath, given, pathVars, versionVars, now, proposerVars,
                       advisorVars, indexVars>>

NextSession == SessionDetect \/ SessionRecommend

SpecSession == InitSession /\ [][NextSession]_vars

(***************************************************************************)
(* LearningProposer.submit (src/unnamed/part_000).  A call runs up to the  *)
(* request it sends to GitHub and is resumed by the response.  submitCall  *)
(* records the call under way or finished last: when it was made and which *)
(* successful submit, if any, came before it.                              *)
(***************************************************************************)
OneWeek == 7 * 24 * 60 * 60 * 1000

\* The instants the clock shows: each week's start, the millisecond before
\* and the millisecond after.
ProposerInstants ==
    {t \in {k * OneWeek + d : k \in 0..MaxWeeks, d \in {-1, 0, 1}} : t >= 0}

GithubTokens == {Undefined, Str(<<>>), Str(<<"ghp_token">>)}

\* response.status of the POST to /repos/obn-wiki/patterns/forks
ForkStatuses == {202, 422, 401, 500}
ResponseOk(status) == status >= 200 /\ status <= 299

TokenRequired ==
    [kind |-> "threw",
     message |-> <<"GitHub token required to submit proposals. Set it in your OpenClaw config.">>]
RateLimited ==
    [kind |-> "threw",
     message |-> <<"Rate limited: only 1 proposal per week. Try again later.">>]
GithubError(status) ==
    [kind |-> "threw", message |-> <<"GitHub API error: ", ToString(status)>>]
FetchFailed == [kind |-> "threw", message |-> <<"fetch failed">>]
PullsUrl == [kind |-> "returned", url |-> "https://github.com/obn-wiki/patterns/pulls"]

\* LearningProposer.isRateLimited()
isRateLimited == FALSE

\* new LearningProposer(githubToken)
InitProposer ==
    /\ githubToken \in GithubTokens
    /\ now = 0
    /\ submitCall = NoRet /\ submitRet = NoRet
    /\ forkRequests = 0 /\ lastOk = NoRet
    /\ config = NoTree /\ patterns = <<>> /\ version = NoVersion
    /\ call = "none" /\ ret = NoRet
    /\ obj = NoTree /\ path = NoPath /\ pcall = "none" /\ pret = NoRet
    /\ installed = NoVersion /\ required = NoVersion
    /\ vcall = "none" /\ vret = FALSE
    /\ configPath = NoPath /\ given = NoRet /\ first = NoRet /\ interleaved = FALSE
    /\ args = <<>> /\ result = NoRet
    /\ cache = Null /\ cacheTime = 0 /\ fetches = <<>>
    /\ latestFetched = NoRet /\ overlapped = FALSE

Awaiting == submitCall # NoRet /\ submitCall.pc = "awaiting"

\* proposer.submit(draft), up to the request createPullRequest sends.
Submit ==
    /\ ~Awaiting
    /\ forkRequests < MaxSubmits
    /\ IF ~Truthy(githubToken)
       THEN /\ submitCall' = [pc |-> "done", at |-> now, prior |-> lastOk]
            /\ submitRet' = TokenRequired
            /\ UNCHANGED forkRequests
       ELSE IF isRateLimited
       THEN /\ submitCall' = [pc |-> "done", at |-> now, prior |-> lastOk]
            /\ submitRet' = RateLimited
            /\ UNCHANGED forkRequests
       ELSE /\ submitCall' = [pc |-> "awaiting", at |-> now, prior |-> lastOk]
            /\ submitRet' = NoRet
            /\ forkRequests' = forkRequests + 1
    /\ UNCHANGED <<githubToken, lastOk, now, scannerVars, pathVars, versionVars,
                   sessionVars, advisorVars, indexVars>>

\* The response arrives: createPullRequest throws or returns the URL, and on
\* a URL submit calls recordProposal(), which records nothing.
SubmitResponse ==
    /\ Awaiting
    /\ \E status \in ForkStatuses :
          IF ~ResponseOk(status) /\ status # 422
          THEN /\ submitRet' = GithubError(status)
               /\ UNCHANGED lastOk
          ELSE /\ submitRet' = PullsUrl
               /\ lastOk' = [at |-> submitCall.at]
    /\ submitCall' = [submitCall EXCEPT !.pc = "done"]
    /\ UNCHANGED <<githubToken, forkRequests, now, scannerVars, pathVars,
                   versionVars, sessionVars, advisorVars, indexVars>>

\* The request fails: fetch rejects, and so do createPullRequest and submit.
SubmitFetchFails ==
    /\ Awaiting
    /\ submitRet' = FetchFailed
    /\ submitCall' = [submitCall EXCEPT !.pc = "done"]
    /\ UNCHANGED <<githubToken, forkRequests, lastOk, now, scannerVars, pathVars,
                   versionVars, sessionVars, advisorVars, indexVars>>

\* Time passes.
ProposerTick ==
    /\ \E t \in ProposerInstants : t > now /\ now' = t
    /\ UNCHANGED <<proposerVars, scannerVars, pathVars, versionVars, sessionVars,
                   advisorVars, indexVars>>

NextProposer == Submit \/ SubmitResponse \/ SubmitFetchFails \/ ProposerTick

SpecProposer == InitProposer /\ [][NextProposer]_vars

(***************************************************************************)
(* handleCommand and its handlers (the entry point, in                     *)
(* src/src/skill-auditor.ts from line 180 on).  An argument is a sequence  *)
(* of words, the empty sequence being ""; config is the configuration on   *)
(* disk (NoTree when the file is missing or is not JSON), version and      *)
(* githubToken are the context's.  A message, a description or a diff is   *)
(* the sequence of the pieces of text it is put together from; the         *)
(* pictograms of the source's messages are left out and a backquote is     *)
(* written as a quote.  What a handler gets from outside (the fetched      *)
(* index, the audit of the skills directory, the logs, the type and the    *)
(* pattern draft() makes out in a description) is any value of a small     *)
(* set.  The command name is never read.                                   *)
(***************************************************************************)
ArgLists ==
    {<<>>, <<<<>>>>, <<K("status")>>, <<K("update")>>, <<K("skills")>>,
     <<K("skills"), K("audit")>>, <<K("report")>>, <<K("propose")>>,
     <<K("propose"), <<>>>>, <<K("propose"), K("cron"), K("crash")>>,
     <<K("submit")>>, <<K("apply"), K("update")>>}

\* args[0] || 'status'
Subcommand(a) == IF Len(a) = 0 \/ a[1] = <<>> THEN K("status") ELSE a[1]

\* parts.join(sep)
RECURSIVE JoinBy(_, _)
JoinBy(parts, sep) ==
    IF Len(parts) = 0 THEN <<>>
    ELSE IF Len(parts) = 1 THEN parts[1]
    ELSE parts[1] \o sep \o JoinBy(Tail(parts), sep)

\* What index.fetch() of a new PatternIndex gives: a failure or a catalog.
FetchedIndex ==
    {[ok |-> FALSE, patterns |-> <<>>]}
        \cup {[ok |-> TRUE, patterns |-> ps] : ps \in SessionCatalogs}

\* handleCommand(command, a, context) settles with r: nothing but the
\* caller's view of the call changes.
Handled(a, r) ==
    /\ args' = a
    /\ result' = r
    /\ UNCHANGED <<scannerVars, pathVars, versionVars, sessionVars, now,
                   proposerVars, indexVars>>

Rejected == [kind |-> "threw"]
MessageOnly(m) ==
    [kind |-> "returned", message |-> m, hasActions |-> FALSE, actions |-> <<>>]

InitAdvisor ==
    /\ args = <<>> /\ result = NoRet
    /\ cache = Null /\ cacheTime = 0 /\ fetches = <<>>
    /\ latestFetched = NoRet /\ overlapped = FALSE
    /\ config \in {NoTree, EmptyObj,
                    MkConfig(Obj1(K("host"), Str(HostAllInterfaces)), EmptyObj,
                             Undefined, Undefined),
                    MkConfig(Undefined, Undefined,
                             Obj1(K("jobs"), Obj1(K("a"), Null)), Undefined)}
    /\ version \in SessionVersions
    /\ githubToken \in GithubTokens
    /\ patterns = <<>> /\ call = "none" /\ ret = NoRet
    /\ obj = NoTree /\ path = NoPath /\ pcall = "none" /\ pret = NoRet
    /\ installed = NoVersion /\ required = NoVersion
    /\ vcall = "none" /\ vret = FALSE
    /\ configPath = NoPath /\ given = NoRet /\ first = NoRet /\ interleaved = FALSE
    /\ now = 0
    /\ submitCall = NoRet /\ submitRet = NoRet
    /\ forkRequests = 0 /\ lastOk = NoRet

\* scanner.load(): the parsed file, or {} when it cannot be read or parsed.
Loaded == IF config = NoTree THEN EmptyObj ELSE config

HandleStatus ==
    \E a \in ArgLists, f \in FetchedIndex :
        /\ Subcommand(a) = K("status")
        /\ \E applied \in {detectAppliedPatterns(Loaded, f.patterns)},
              updates \in {findAvailableUpdates(Loaded, f.patterns, version)} :
           LET n == Len(updates.list)
           IN  Handled(a,
                 IF ~f.ok \/ applied.kind = "threw" \/ updates.kind = "threw"
                 THEN Rejected
                 ELSE MessageOnly(
                        <<"**OBN Status**\n\nOpenClaw version: v">> \o version
                          \o <<"\nPatterns applied: ", ToString(Len(applied.list)),
                               " of ", ToString(Len(f.patterns))>>
                          \o (IF n > 0
                              THEN <<"\nUpdates available: ", ToString(n), "\n">>
                                     \o JoinBy([i \in 1..n |->
                                           <<"  - **", updates.list[i].patternTitle,
                                             "**: ">> \o updates.list[i].reason
                                                     \o <<"\n">>], <<>>)
                                     \o <<"\nRun '@obn update' to see proposed changes.">>
                              ELSE <<"\nAll applicable patterns are up to date.">>)))

HandleUpdate ==
    \E a \in ArgLists, f \in FetchedIndex :
        /\ Subcommand(a) = K("update")
        /\ \E updates \in {findAvailableUpdates(Loaded, f.patterns, version)} :
           LET n == Len(updates.list)
           IN  Handled(a,
                 IF ~f.ok \/ updates.kind = "threw" THEN Rejected
                 ELSE IF n = 0
                 THEN MessageOnly(<<"No updates available. Your config matches all applicable patterns.">>)
                 ELSE [kind |-> "returned",
                       message |->
                          <<"**", ToString(n), " update(s) available:**\n\n">>
                            \o JoinBy([i \in 1..n |->
                                  <<"### ", updates.list[i].patternTitle, "\n">>
                                    \o updates.list[i].reason \o <<"\n'''diff\n">>
                                    \o updates.list[i].configDiff \o <<"\n'''">>],
                                  <<"\n\n">>),
                       hasActions |-> TRUE,
                       actions |->
                          [i \in 1..n |->
                             [type |-> "update_config",
                              description |-> <<updates.list[i].patternTitle, ": ">>
                                                 \o updates.list[i].reason,
                              diff |-> updates.list[i].configDiff,
                              requiresApproval |-> TRUE]]])

\* The names auditor.audit() reports, and the message that goes with a status.
SkillNames == <<"alpha", "beta", "gamma">>
AuditMessage(status) ==
    CASE status = "ok" -> "No known issues"
      [] status = "warning" -> "No package.json found"
      [] status = "danger" -> "Flagged by VirusTotal or OBN security review"

HandleSkills ==
    \E a \in ArgLists :
      /\ Subcommand(a) = K("skills")
      /\ IF Len(a) < 2 \/ a[2] # K("audit")
         THEN Handled(a, MessageOnly(<<"Usage: @obn skills audit">>))
         ELSE
              \E n \in 0..MaxSkills :
              \E status \in [1..n -> {"ok", "warning", "danger"}] :
                   LET risky == SelectSeq([i \in 1..n |-> i], LAMBDA i : status[i] = "danger")
                       outdated == SelectSeq([i \in 1..n |-> i], LAMBDA i : status[i] = "warning")
                       lines ==
                          <<<<"**Installed skills: ", ToString(n), "**\n">>>>
                            \o [i \in 1..n |->
                                  <<"**", SkillNames[i], "** v", "unknown", " - ",
                                    AuditMessage(status[i])>>]
                            \o (IF Len(risky) > 0
                                THEN <<<<"\n**", ToString(Len(risky)),
                                         " skill(s) flagged as dangerous.** Remove or replace immediately.">>>>
                                ELSE <<>>)
                            \o (IF Len(outdated) > 0
                                THEN <<<<"\n**", ToString(Len(outdated)),
                                         " skill(s) have updates available.** Run 'openclaw skills update <name>' to update.">>>>
                                ELSE <<>>)
                   IN  Handled(a,
                              [kind |-> "returned",
                               message |-> JoinBy(lines, <<"\n">>),
                               hasActions |-> Len(risky) > 0,
                               actions |->
                                  [k \in 1..Len(risky) |->
                                     [type |-> "remove_skill",
                                      description |-> <<"Remove ", SkillNames[risky[k]], ": ",
                                                        AuditMessage(status[risky[k]])>>,
                                      requiresApproval |-> TRUE]]])

\* tracker.collect() reads the logs: absent logs count as zeros.
HandleReport ==
    \E a \in ArgLists, runs \in {0, 168, 336} :
        /\ Subcommand(a) = K("report")
        /\ Handled(a,
              MessageOnly(
                <<"**OBN Performance Report - Last 7 days**\n\nHeartbeat: ",
                  ToString(IF runs = 0 THEN 0 ELSE (runs * 100) \div 336),
                  "% reliability (", ToString(runs), "/",
                  ToString(IF runs = 0 THEN 0 ELSE 336), " runs)",
                  "\nToken spend: $0.00/day avg",
                  "\nSecurity: 0 injection attempts blocked",
                  "\nContext: 0 compactions, 0 critical state losses",
                  "\nCron: 0 skipped jobs, 0 duplicate fires">>))

\* The type proposer.draft() can classify a description as, with the type
\* as the title words it and its label; and the patterns it can identify.
LearningTypes ==
    {[type |-> "failure_mode", words |-> "failure mode", label |-> "New Failure Mode"],
     [type |-> "config_improvement", words |-> "config improvement",
      label |-> "Configuration Improvement"],
     [type |-> "new_edge_case", words |-> "new edge case", label |-> "Edge Case"],
     [type |-> "test_harness_addition", words |-> "test harness addition",
      label |-> "Test Harness Addition"]}
TargetPatterns == {"general", "cron-reliability-hardening"}

\* Mutant: the draft is submitted straight away when a token is set.
HandlePropose_Submits ==
    \E a \in ArgLists :
        /\ Subcommand(a) = K("propose")
        /\ args' = a
        /\ result' = MessageOnly(<<"Submitted">>)
        /\ IF Truthy(githubToken) /\ ~Awaiting /\ forkRequests < MaxSubmits
           THEN /\ submitCall' = [pc |-> "awaiting", at |-> now, prior |-> lastOk]
                /\ forkRequests' = forkRequests + 1
           ELSE UNCHANGED <<submitCall, forkRequests>>
        /\ UNCHANGED <<scannerVars, pathVars, versionVars, sessionVars, now,
                       githubToken, submitRet, lastOk, indexVars>>

\* handlePropose: new LearningProposer(context.githubToken), then draft();
\* the draft is returned for approval and submit is not called.
HandlePropose ==
    \E a \in ArgLists :
      /\ Subcommand(a) = K("propose")
      /\ IF JoinBy(Tail(a), <<" ">>) = <<>>
         THEN Handled(a, MessageOnly(<<"**How to propose a learning:**\n\nDescribe what you observed:\n'@obn propose After applying cron reliability, first run after restart still uses wrong model'\n\nThe skill will draft a structured proposal for your review before submitting.">>))
         ELSE
              \E t \in LearningTypes, target \in TargetPatterns :
                   LET description == JoinBy(Tail(a), <<" ">>)
                       content ==
                          <<"**Type:** ", t.label, "\n\n**Observation:**\n", "anonymize(">>
                            \o description
                            \o <<")", "\n\n**Source:** Community learning via @obn/advisor (anonymized)">>
                       diff ==
                          IF t.type = "failure_mode"
                          THEN <<"--- a/patterns/*/", target, ".md\n+++ b/patterns/*/", target,
                                 ".md\n@@ Failure Modes @@\n+| [Description from observation] | [Root cause] | [Mitigation] |">>
                          ELSE <<"--- a/patterns/*/", target, ".md\n+++ b/patterns/*/", target,
                                 ".md\n+ [Proposed addition based on community observation]">>
                   IN  Handled(a,
                              [kind |-> "returned",
                               message |->
                                  <<"**Draft Proposal:**\n\nPattern: ", target, "\nType: ",
                                    t.type, "\n\n">> \o content
                                    \o <<"\n\nSubmit this as a PR to obn-wiki/patterns?">>,
                               hasActions |-> TRUE,
                               actions |->
                                  <<[type |-> "submit_pr",
                                     description |-> <<"Submit learning to OBN: ", "learning: ",
                                                       t.words, " for ", target>>,
                                     diff |-> diff,
                                     requiresApproval |-> TRUE]>>])

\* default: the list of commands
HandleDefault ==
    \E a \in ArgLists :
        /\ Subcommand(a) \notin {K("status"), K("update"), K("skills"), K("report"),
                                 K("propose")}
        /\ Handled(a,
              MessageOnly(<<"**@obn/advisor commands:**\n- '@obn status' - version, patterns, updates available\n- '@obn update' - propose config changes\n- '@obn skills audit' - scan installed skills for risks\n- '@obn report' - pattern performance metrics\n- '@obn propose' - submit a learning to OBN">>))

\* handleCommand: the switch on the subcommand.
HandleCommand ==
    \/ HandleStatus
    \/ HandleUpdate
    \/ HandleSkills
    \/ HandleReport
    \/ HandlePropose
    \/ HandleDefault

\* The host calls handleCommand; proposer.submit is there for it to call.
NextAdvisor == HandleCommand \/ Submit \/ SubmitResponse \/ SubmitFetchFails

SpecAdvisor == InitAdvisor /\ [][NextAdvisor]_vars

(***************************************************************************)
(* One PatternIndex and the calls of fetch() on it.  fetch() is an async   *)
(* function: it runs to its first await without interruption, and between  *)
(* an await and its continuation any other call may run.  A call is        *)
(* "response" while it awaits fetch(indexUrl), "body" while it awaits       *)
(* response.json(), and "done" once it has returned or thrown.  The clock  *)
(* and what the network answers are the environment's choice.              *)
(***************************************************************************)
cacheTtl == 24 * 60 * 60 * 1000

\* Date.now(): half days from the start, and the last millisecond of the
\* first day.
IndexInstants ==
    {k * (cacheTtl \div 2) : k \in 0..MaxHalfDays} \cup {cacheTtl - 1}

\* What response.json() resolves with; the cast to PatternEntry[] checks
\* nothing, so the body null is stored as it comes.
IndexBodies == {Null, Arr(<<>>), Arr(CatalogSome)}

FetchThrew(m) == [kind |-> "threw", message |-> m]

\* new PatternIndex(indexUrl)
InitIndex ==
    /\ cache = Null /\ cacheTime = 0
    /\ now = 0
    /\ fetches = [i \in 1..MaxOverlap |->
                    [pc |-> "idle", at |-> 0, ret |-> NoRet]]
    /\ latestFetched = NoRet /\ overlapped = FALSE
    /\ config = NoTree /\ patterns = <<>> /\ version = NoVersion
    /\ call = "none" /\ ret = NoRet
    /\ obj = NoTree /\ path = NoPath /\ pcall = "none" /\ pret = NoRet
    /\ installed = NoVersion /\ required = NoVersion
    /\ vcall = "none" /\ vret = FALSE
    /\ configPath = NoPath /\ given = NoRet /\ first = NoRet /\ interleaved = FALSE
    /\ githubToken = Undefined /\ submitCall = NoRet /\ submitRet = NoRet
    /\ forkRequests = 0 /\ lastOk = NoRet
    /\ args = <<>> /\ result = NoRet

InFlight(i) == fetches[i].pc \in {"response", "body"}

\* fetch(), up to its first await: the cached value when there is one and
\* it is younger than cacheTtl, else the request is sent.
FetchStart(i) ==
    /\ ~InFlight(i)
    /\ IF Truthy(cache) /\ now - cacheTime < cacheTtl
       THEN /\ fetches' = [fetches EXCEPT ![i] =
                             [pc |-> "done", at |-> now,
                              ret |-> [kind |-> "returned", value |-> cache]]]
            /\ UNCHANGED overlapped
       ELSE /\ fetches' = [fetches EXCEPT ![i] =
                             [pc |-> "response", at |-> now, ret |-> NoRet]]
            /\ overlapped' = (overlapped \/ \E j \in 1..MaxOverlap : InFlight(j))
    /\ UNCHANGED <<cache, cacheTime, latestFetched, now, scannerVars, pathVars,
                   versionVars, sessionVars, proposerVars, advisorVars>>

\* The request settles: fetch rejects, or the response is not ok and the
\* call throws, or the call goes on to read the body.
FetchResponse(i) ==
    /\ fetches[i].pc = "response"
    /\ \/ fetches' = [fetches EXCEPT ![i].pc = "body"]
       \/ \E status \in {404, 500} :
            fetches' = [fetches EXCEPT ![i].pc = "done",
                          ![i].ret = FetchThrew(<<"Failed to fetch pattern index: ",
                                                  ToString(status)>>)]
       \/ fetches' = [fetches EXCEPT ![i].pc = "done",
                        ![i].ret = FetchThrew(<<"fetch failed">>)]
    /\ UNCHANGED <<cache, cacheTime, latestFetched, overlapped, now, scannerVars,
                   pathVars, versionVars, sessionVars, proposerVars, advisorVars>>

\* response.json() settles: on a value the call stores it, stamps it with
\* the instant the call read at its start and returns it; on a rejection the
\* call throws before either assignment.
FetchBody(i) ==
    /\ fetches[i].pc = "body"
    /\ \/ \E body \in IndexBodies :
            /\ cache' = body
            /\ cacheTime' = fetches[i].at
            /\ fetches' = [fetches EXCEPT ![i].pc = "done",
                             ![i].ret = [kind |-> "returned", value |-> body]]
            /\ latestFetched' =
                 IF body # Null /\ (latestFetched = NoRet
                                     \/ latestFetched.at < fetches[i].at)
                 THEN [at |-> fetches[i].at]
                 ELSE latestFetched
       \/ /\ fetches' = [fetches EXCEPT ![i].pc = "done",
                           ![i].ret = FetchThrew(<<"Unexpected token">>)]
          /\ UNCHANGED <<cache, cacheTime, latestFetched>>
    /\ UNCHANGED <<overlapped, now, scannerVars, pathVars, versionVars,
                   sessionVars, proposerVars, advisorVars>>

\* Time passes.
IndexTick ==
    /\ \E t \in IndexInstants : t > now /\ now' = t
    /\ UNCHANGED <<indexVars, scannerVars, pathVars, versionVars, sessionVars,
                   proposerVars, advisorVars>>

NextIndex ==
    \/ \E i \in 1..MaxOverlap : FetchStart(i)
    \/ \E i \in 1..MaxOverlap : FetchResponse(i)
    \/ \E i \in 1..MaxOverlap : FetchBody(i)
    \/ IndexTick

SpecIndex == InitIndex /\ [][NextIndex]_vars

(***************************************************************************)
(* Properties of the version comparators (checked under SpecVersion).      *)
(***************************************************************************)
Comparator(c, inst, req) ==
    IF c = "isVersionAtLeast" THEN isVersionAtLeast(inst, req)
    ELSE isVersionCompatible(inst, req)

\* The required string as the comparator c parses it.
Cleaned(c, req) == IF c = "isVersionCompatible" THEN ReplaceFirstPlus(req) ELSE req

IsNumberToken(tok) == ~NumberOf(tok).nan
IsDigitsToken(tok) == tok # <<>> /\ \A i \in 1..Len(tok) : IsDigit(tok[i])
IsNumericVersion(v) == \A i \in 1..Len(Split(v)) : IsDigitsToken(Split(v)[i])
HasPlusSuffix(req) == Len(req) > 0 /\ req[Len(req)] = "+"
StripSuffix(req) == SubSeq(req, 1, Len(req) - 1)

\* The reference comparison: split, read the digits, pad with zeros, and let
\* the first unequal component decide.
RefParts(v) == [i \in 1..Len(Split(v)) |-> DecimalValue(Split(v)[i])]
Padded(p, n) == [i \in 1..n |-> IF i <= Len(p) THEN p[i] ELSE 0]
RefAtLeast(inst, req) ==
    LET n == Max(Len(RefParts(inst)), Len(RefParts(req)))
        a == Padded(RefParts(inst), n)
        b == Padded(RefParts(req), n)
        diff == {i \in 1..n : a[i] # b[i]}
    IN  IF diff = {} THEN TRUE
        ELSE LET m == CHOOSE i \in diff : \A j \in diff : i <= j IN a[m] > b[m]

\* C6: on dotted numeric version strings each comparator returns what the
\* reference comparison returns (equal after zero padding gives true).
C6_MatchesReference ==
    (vcall # "none" /\ IsNumericVersion(installed) /\ IsNumericVersion(required))
        => vret = RefAtLeast(installed, required)

C6_Witness ==
    /\ vcall = "isVersionAtLeast" /\ vret = TRUE
    /\ installed = V2026_2 /\ required = V2026_2_0

\* C7 as stated: with each comparator, a requirement R + "+" gives the result
\* the comparator gives for R; 2026.2.11 against 2026.2.12 with or without
\* "+" is false, 2026.2.12 and 2026.3.0 against "2026.2.12+" are true.
C7_EachComparatorIgnoresPlus ==
    /\ (vcall # "none" /\ HasPlusSuffix(required))
          => vret = Comparator(vcall, installed, StripSuffix(required))
    /\ (vcall # "none" /\ installed = V2026_2_11
           /\ required \in {V2026_2_12, WithPlus(V2026_2_12)}) => vret = FALSE
    /\ (vcall # "none" /\ installed \in {V2026_2_12, V2026_3_0}
           /\ required = WithPlus(V2026_2_12)) => vret = TRUE

\* C7 amended: isVersionCompatible with a requirement R + "+" returns what
\* isVersionAtLeast and isVersionCompatible return for R, and the scenarios
\* hold for it; without "+", 2026.2.11 against 2026.2.12 is false for both
\* comparators.
C7_CompatibleIgnoresPlus ==
    /\ (vcall = "isVersionCompatible" /\ HasPlusSuffix(required))
          => /\ vret = isVersionAtLeast(installed, StripSuffix(required))
             /\ vret = isVersionCompatible(installed, StripSuffix(required))
    /\ (vcall = "isVersionCompatible" /\ installed = V2026_2_11
           /\ required = WithPlus(V2026_2_12)) => vret = FALSE
    /\ (vcall # "none" /\ installed = V2026_2_11 /\ required = V2026_2_12)
          => vret = FALSE
    /\ (vcall = "isVersionCompatible" /\ installed \in {V2026_2_12, V2026_3_0}
           /\ required = WithPlus(V2026_2_12)) => vret = TRUE

C7_Witness ==
    /\ vcall = "isVersionCompatible" /\ vret = FALSE
    /\ installed = V2026_2_11 /\ required = WithPlus(V2026_2_12)

\* Component-wise order of two parsed version strings after zero padding.
ComponentwiseGE(a2, a1) ==
    \A i \in 1..Max(Len(a2), Len(a1)) : OrZero(a2, i) >= OrZero(a1, i)

ParsedVersion == [v \in Versions |-> ParseParts(v)]

\* C8: when isVersionAtLeast(installed, required) is true, it is true of every
\* installed2 that is component-wise greater than or equal to installed.
C8_MonotonicInInstalled ==
    (vcall = "isVersionAtLeast" /\ vret = TRUE)
        => LET a1 == ParseParts(installed)
               b == ParseParts(required)
           IN  \A installed2 \in Versions :
                  ComponentwiseGE(ParsedVersion[installed2], a1)
                      => isVersionAtLeastLoop(ParsedVersion[installed2], b, 1)

C8_Witness ==
    /\ vcall = "isVersionAtLeast" /\ vret = TRUE
    /\ Len(Split(installed)) < Len(Split(required))
    /\ \E installed2 \in Versions :
          /\ ComponentwiseGE(ParseParts(installed2), ParseParts(installed))
          /\ ~ComponentwiseGE(ParseParts(installed), ParseParts(installed2))

\* A version string with segment k replaced, and with every segment that is
\* not a number replaced by "0".
NotANumber == <<"x">>
ReplaceSeg(v, k, tok) == Join([Split(v) EXCEPT ![k] = tok])
ZeroOut(v) ==
    Join([i \in 1..Len(Split(v)) |->
            IF IsNumberToken(Split(v)[i]) THEN Split(v)[i] ELSE <<"0">>])

TreatedAsZero ==
    vcall # "none"
        => vret = Comparator(vcall, ZeroOut(installed),
                             ZeroOut(Cleaned(vcall, required)))

\* C9 as stated: a segment that is not a number counts as 0, and replacing a
\* segment of either string by an unparseable token never turns a false
\* comparison into a true one.
C9_UnparseableBiasesToFalse ==
    /\ TreatedAsZero
    /\ (vcall # "none" /\ vret = FALSE)
          => /\ \A k \in 1..Len(Split(installed)) :
                    ~Comparator(vcall, ReplaceSeg(installed, k, NotANumber), required)
             /\ \A k \in 1..Len(Split(required)) :
                    ~Comparator(vcall, installed, ReplaceSeg(required, k, NotANumber))

\* C9 amended: a segment that is not a number counts as 0; replacing a
\* segment of the installed string by an unparseable token never turns false
\* into true, and replacing a segment of the required string never turns
\* true into false.
C9_UnparseableIsZero ==
    /\ TreatedAsZero
    /\ vret \in BOOLEAN
    /\ (vcall # "none" /\ vret = FALSE)
          => \A k \in 1..Len(Split(installed)) :
                ~Comparator(vcall, ReplaceSeg(installed, k, NotANumber), required)
    /\ (vcall # "none" /\ vret = TRUE)
          => \A k \in 1..Len(Split(required)) :
                Comparator(vcall, installed, ReplaceSeg(required, k, NotANumber))

C9_Witness ==
    /\ vcall = "isVersionAtLeast" /\ vret = FALSE
    /\ installed = Join(<<(<<"2">>), NotANumber>>)
    /\ required = Join(<<(<<"2">>), (<<"1", "0">>)>>)

(***************************************************************************)
(* Properties of the path resolver (checked under SpecPath).               *)
(***************************************************************************)
HasOwnKey(o, key) == \E i \in 1..Len(o.ks) : o.ks[i] = key
OwnValue(o, key) == o.vs[CHOOSE i \in 1..Len(o.ks) : o.ks[i] = key]

\* The resolution the contract describes: every segment is looked up as a key
\* of a mapping.  "present" with the value reached, "absentKey" when a mapping
\* on the way lacks the key, "nonMapping" when a segment is applied to a
\* scalar, null or a sequence.
RECURSIVE Resolve(_, _)
Resolve(v, segs) ==
    IF segs = <<>> THEN [st |-> "present", v |-> v, key |-> <<>>]
    ELSE IF v.t # "object" THEN [st |-> "nonMapping", v |-> v, key |-> Head(segs)]
    ELSE IF HasOwnKey(v, Head(segs)) THEN Resolve(OwnValue(v, Head(segs)), Tail(segs))
    ELSE [st |-> "absentKey", v |-> Undefined, key |-> Head(segs)]

Resolved == Resolve(obj, Split(path))
FalsyPresent == {Bool(FALSE), Num(0), Arr(<<>>), EmptyObj}

C5_NonMappingIsAbsent ==
    /\ (pcall = "hasNestedKey" /\ Resolved.st = "nonMapping") => ~pret.b
    /\ (pcall = "getNestedValue" /\ Resolved.st = "nonMapping")
          => pret.v = Undefined
    /\ pcall = "hasNestedKey" => pret.b = (getNestedValue(obj, path) # Undefined)
    /\ pcall = "getNestedValue" => (pret.v # Undefined) = hasNestedKey(obj, path)

\* What does hold of the code: exists and get agree, and a segment applied to
\* a scalar or to null gives absent.
ExistsIffGetPresent ==
    /\ pcall = "hasNestedKey" => pret.b = (getNestedValue(obj, path) # Undefined)
    /\ pcall = "getNestedValue" => (pret.v # Undefined) = hasNestedKey(obj, path)
    /\ (pcall = "hasNestedKey" /\ Resolved.st = "nonMapping"
           /\ Resolved.v.t # "array") => ~pret.b
    /\ (pcall = "getNestedValue" /\ Resolved.st = "nonMapping"
           /\ Resolved.v.t # "array") => pret.v = Undefined

(***************************************************************************)
(* Properties of the scanner (checked under Spec).                         *)
(***************************************************************************)
Slugs(list) == [i \in 1..Len(list) |-> list[i].patternSlug]

\* C1 as stated: for the empty tree and the empty catalog, whatever the
\* version, both calls return an empty list and raise no error.
C1_EmptyInEmptyOut ==
    (call # "none" /\ config = EmptyObj /\ patterns = <<>>)
        => ret = [kind |-> "returned", list |-> <<>>]

\* C1 amended: for the empty tree and the empty catalog no call raises an
\* error and detect returns an empty list; recommend returns an empty list
\* for a version below 2026.2.12 and the one SSRF update from 2026.2.12 on.
C1_EmptyTreeGetsSsrfUpdate ==
    (call # "none" /\ config = EmptyObj /\ patterns = <<>>)
        => /\ ret.kind = "returned"
           /\ call = "detectAppliedPatterns" => ret.list = <<>>
           /\ (call = "findAvailableUpdates" /\ version \in OlderVersions)
                 => ret.list = <<>>
           /\ (call = "findAvailableUpdates" /\ version \in GatedVersions)
                 => /\ Slugs(ret.list) = <<"ssrf-defense">>
                    /\ ret.list[1].patternTitle = "SSRF Defense"

C1_Witness ==
    /\ call = "findAvailableUpdates" /\ config = EmptyObj /\ patterns = <<>>
    /\ version = V2026_2_12
    /\ ret.kind = "returned" /\ Len(ret.list) = 1

GatewayOnAllInterfaces == MkConfig(Obj1(K("host"), Str(HostAllInterfaces)),
                                   Undefined, Undefined, Undefined)
HasSlug(ps, slug) == \E i \in 1..Len(ps) : ps[i].slug = slug
ReasonNamesAllInterfaces(u) ==
    u.reason = <<"Gateway is bound to 0.0.0.0 (all interfaces) - should be 127.0.0.1 or Tailscale IP">>

\* C2 as stated: for {gateway: {host: "0.0.0.0"}} and a catalog holding
\* gateway-hardening, whatever the version, recommend returns exactly one
\* update, gateway-hardening, whose reason names the 0.0.0.0 binding.
C2_ExactlyOneGatewayUpdate ==
    (call = "findAvailableUpdates" /\ config = GatewayOnAllInterfaces
       /\ HasSlug(patterns, "gateway-hardening"))
        => /\ ret.kind = "returned"
           /\ Slugs(ret.list) = <<"gateway-hardening">>
           /\ ReasonNamesAllInterfaces(ret.list[1])

\* C2 amended: for a version below 2026.2.12 recommend returns exactly that
\* one update; from 2026.2.12 on it returns two, ssrf-defense and then
\* gateway-hardening with the same reason.
C2_GatewayUpdateAfterSsrf ==
    (call = "findAvailableUpdates" /\ config = GatewayOnAllInterfaces
       /\ HasSlug(patterns, "gateway-hardening"))
        => /\ ret.kind = "returned"
           /\ version \in OlderVersions
                 => /\ Slugs(ret.list) = <<"gateway-hardening">>
                    /\ ReasonNamesAllInterfaces(ret.list[1])
           /\ version \in GatedVersions
                 => /\ Slugs(ret.list) = <<"ssrf-defense", "gateway-hardening">>
                    /\ ReasonNamesAllInterfaces(ret.list[2])

C2_Witness ==
    /\ call = "findAvailableUpdates" /\ config = GatewayOnAllInterfaces
    /\ patterns = CatalogSome /\ version = V2026_3_0
    /\ ret.kind = "returned" /\ Len(ret.list) = 2

\* C3: detectAppliedPatterns and findAvailableUpdates return a result for
\* every tree, catalog and version; neither ever throws.
C3_NeverThrows == call # "none" => ret.kind = "returned"

\* The rule predicates as the contract words them, over the values the tree
\* holds.
At(c, p) == getNestedValue(c, p)
SomeJobIsolated(c) ==
    /\ Truthy(At(c, P2("cron", "jobs")))
    /\ \E e \in {ObjectValues(At(c, P2("cron", "jobs")))[i] :
                    i \in 1..Len(ObjectValues(At(c, P2("cron", "jobs"))))} :
          IsObjectType(e) /\ GetProp(e, K("isolated")) = Bool(TRUE)
RuleHolds(slug, c) ==
    CASE slug = "gateway-hardening" ->
            At(c, P2("gateway", "host")) \notin {Undefined, Str(HostAllInterfaces)}
      [] slug = "ssrf-defense" ->
            At(c, P3("gateway", "files", "urlAllowlist")) # Undefined
      [] slug = "hook-security" ->
            At(c, P2("hooks", "allowRequestSessionKey")) = Bool(FALSE)
      [] slug = "cron-reliability-hardening" -> SomeJobIsolated(c)
      [] slug = "native-guardrails-integration" ->
            At(c, P4("agents", "defaults", "guardrails", "enabled")) = Bool(TRUE)

RuleOrder == <<"gateway-hardening", "ssrf-defense", "hook-security",
               "cron-reliability-hardening", "native-guardrails-integration">>
Provenance(slug) ==
    CASE slug = "gateway-hardening" -> "gateway.host is not 0.0.0.0"
      [] slug = "ssrf-defense" -> "gateway.files.urlAllowlist configured"
      [] slug = "hook-security" -> "hooks.allowRequestSessionKey is false"
      [] slug = "cron-reliability-hardening" -> "cron jobs have isolated: true"
      [] slug = "native-guardrails-integration" ->
            "agents.defaults.guardrails.enabled is true"

\* list is the subsequence of RuleOrder of the rules that hold and whose slug
\* the catalog has, each entry with the catalog's title and the provenance.
IsRuleSubsequence(list, c, ps) ==
    LET firing == {i \in 1..Len(RuleOrder) :
                      RuleHolds(RuleOrder[i], c) /\ HasSlug(ps, RuleOrder[i])}
    IN  /\ Len(list) = Cardinality(firing)
        /\ \A k \in 1..Len(list) :
              \E i \in firing :
                  /\ Cardinality({j \in firing : j < i}) = k - 1
                  /\ list[k].slug = RuleOrder[i]
                  /\ list[k].detectedVia = Provenance(RuleOrder[i])
                  /\ \E n \in 1..Len(ps) :
                        ps[n].slug = RuleOrder[i] /\ ps[n].title = list[k].title

\* C10: for every tree and catalog detectAppliedPatterns returns exactly the
\* subsequence, in declaration order, of the rules whose predicate holds and
\* whose slug is in the catalog, with the catalog's title and the rule's
\* provenance, at most one entry a rule.
C10_DetectReturnsRuleSubsequence ==
    call = "detectAppliedPatterns"
        => /\ ret.kind = "returned"
           /\ IsRuleSubsequence(ret.list, config, patterns)

\* What does hold of the code: whenever the call returns, it returns that
\* subsequence.
DetectSubsequenceWhenReturned ==
    (call = "detectAppliedPatterns" /\ ret.kind = "returned")
        => IsRuleSubsequence(ret.list, config, patterns)

\* The recommendation rules in declaration order, and when each is applicable
\* and gapped, as the contract words it over the values the tree holds.
UpdateOrder == <<"ssrf-defense", "hook-security", "cron-reliability-hardening",
                 "gateway-hardening">>

\* version >= 2026.2.12 by the reference comparison; a version that is not
\* dotted numeric does not reach it.
ReachesGate(v) == IsNumericVersion(v) /\ RefAtLeast(v, V2026_2_12)

\* The jobs of cron.jobs whose isolated is not true, as a count.
JobsOf(c) ==
    IF Truthy(At(c, P2("cron", "jobs"))) THEN ObjectValues(At(c, P2("cron", "jobs")))
    ELSE <<>>
IsolatedIsTrue(j) == IsObjectType(j) /\ GetProp(j, K("isolated")) = Bool(TRUE)
NotIsolatedCount(c) == Cardinality({i \in 1..Len(JobsOf(c)) : ~IsolatedIsTrue(JobsOf(c)[i])})

Gapped(slug, c, v) ==
    CASE slug = "ssrf-defense" ->
            ReachesGate(v) /\ At(c, P3("gateway", "files", "urlAllowlist")) = Undefined
      [] slug = "hook-security" ->
            /\ ReachesGate(v)
            /\ At(c, <<"hooks">>) # Undefined
            /\ At(c, P2("hooks", "defaultSessionKey")) = Undefined
      [] slug = "cron-reliability-hardening" -> NotIsolatedCount(c) >= 1
      [] slug = "gateway-hardening" ->
            At(c, P2("gateway", "host")) = Str(HostAllInterfaces)

GappedSlugs(c, v) == SelectSeq(UpdateOrder, LAMBDA slug : Gapped(slug, c, v))

\* C11: for every tree, catalog and version findAvailableUpdates returns
\* exactly the subsequence, in declaration order, of the rules that are
\* applicable and gapped; a rule whose gap predicate is false contributes
\* nothing, whatever the version.
C11_RecommendReturnsGappedSubsequence ==
    call = "findAvailableUpdates"
        => /\ ret.kind = "returned"
           /\ Slugs(ret.list) = GappedSlugs(config, version)

\* What does hold of the code: whenever the call returns, it returns that
\* subsequence.
RecommendSubsequenceWhenReturned ==
    (call = "findAvailableUpdates" /\ ret.kind = "returned")
        => Slugs(ret.list) = GappedSlugs(config, version)

\* A cron.jobs mapping with a null entry is the only input on which the call
\* does not return.
RecommendThrowsOnlyOnNullJob ==
    (call = "findAvailableUpdates" /\ ret.kind = "threw")
        => \E i \in 1..Len(JobsOf(config)) : JobsOf(config)[i] = Null

CronSlug == "cron-reliability-hardening"
CronJobsIsMapping(c) == At(c, P2("cron", "jobs")).t = "object"
CronScenario ==
    MkConfig(Undefined, Undefined,
             Obj1(K("jobs"), Obj2(K("a"), Isolated(TRUE), K("b"), Isolated(FALSE))),
             Undefined)

\* The count a cron update's reason opens with.
ReasonCount(u) == u.reason[1]

\* C12: for every cron.jobs mapping and a catalog holding
\* cron-reliability-hardening, detect reports the cron pattern iff at least
\* one job has isolated === true, and recommend emits a cron update iff at
\* least one job has not, its reason counting the jobs whose isolated is not
\* true; for {a: isolated, b: not isolated} the pattern is both reported and
\* flagged with count 1.
C12_CronAppliedAndFlagged ==
    (call # "none" /\ CronJobsIsMapping(config) /\ HasSlug(patterns, CronSlug))
        => /\ ret.kind = "returned"
           /\ call = "detectAppliedPatterns"
                 => ((\E i \in 1..Len(ret.list) : ret.list[i].slug = CronSlug)
                        <=> SomeJobIsolated(config))
           /\ call = "findAvailableUpdates"
                 => /\ (\E i \in 1..Len(ret.list) : ret.list[i].patternSlug = CronSlug)
                          <=> NotIsolatedCount(config) >= 1
                    /\ \A i \in 1..Len(ret.list) :
                          ret.list[i].patternSlug = CronSlug
                             => ReasonCount(ret.list[i]) = ToString(NotIsolatedCount(config))

\* What does hold of the code: the same, whenever the call returns; and the
\* scenario {a: isolated, b: not isolated} is reported and flagged with 1.
CronAppliedAndFlaggedWhenReturned ==
    (call # "none" /\ CronJobsIsMapping(config) /\ HasSlug(patterns, CronSlug)
       /\ ret.kind = "returned")
        => /\ call = "detectAppliedPatterns"
                 => ((\E i \in 1..Len(ret.list) : ret.list[i].slug = CronSlug)
                        <=> SomeJobIsolated(config))
           /\ call = "findAvailableUpdates"
                 => /\ (\E i \in 1..Len(ret.list) : ret.list[i].patternSlug = CronSlug)
                          <=> NotIsolatedCount(config) >= 1
                    /\ \A i \in 1..Len(ret.list) :
                          ret.list[i].patternSlug = CronSlug
                             => ReasonCount(ret.list[i]) = ToString(NotIsolatedCount(config))

CronScenarioReportedAndFlagged ==
    (call # "none" /\ config = CronScenario /\ HasSlug(patterns, CronSlug))
        => /\ ret.kind = "returned"
           /\ call = "detectAppliedPatterns" => Len(ret.list) = 1 /\ ret.list[1].slug = CronSlug
           /\ call = "findAvailableUpdates"
                 => \E i \in 1..Len(ret.list) :
                       ret.list[i].patternSlug = CronSlug /\ ReasonCount(ret.list[i]) = "1"

\* C14: detectAppliedPatterns and findAvailableUpdates leave the tree and the
\* catalog they are passed as they were: no call changes either, so after any
\* sequence of calls both equal their values before, and a recommended change
\* exists only in the returned list.
C14_CallsLeaveTreeAndCatalog ==
    [][config' = config /\ patterns' = patterns]_vars

\* recommend has returned the gateway update, and the tree it was given still
\* binds the gateway to 0.0.0.0.
C14_Witness ==
    /\ call = "findAvailableUpdates" /\ ret.kind = "returned"
    /\ \E i \in 1..Len(ret.list) : ret.list[i] = GatewayUpdate
    /\ getNestedValue(config, P2("gateway", "host")) = Str(HostAllInterfaces)
    /\ patterns = CatalogAll

(***************************************************************************)
(* Properties of a session of calls (checked under SpecSession).           *)
(***************************************************************************)
LatestCall == [call |-> call, config |-> config, patterns |-> patterns,
               version |-> version]

\* C13: the scanner holds no cross-call state: after any sequence of earlier
\* calls with any arguments, a call with given arguments has the outcome the
\* first such call had, list and order alike; so detect run twice on one
\* tree and catalog gives the same list.
C13_SameArgumentsSameOutcome ==
    (first # NoRet /\ LatestCall = given) => ret = first

\* The given call, made again after a different call, returning a list that
\* is not empty.
C13_Witness ==
    /\ first # NoRet /\ interleaved /\ LatestCall = given
    /\ ret.kind = "returned" /\ Len(ret.list) > 0

(***************************************************************************)
(* Properties of the proposer (checked under SpecProposer).                *)
(***************************************************************************)
\* C15: submission is limited to one proposal a week: with a token set, once
\* a submit has succeeded, every submit made less than one week after it
\* fails with the rate-limit error and sends no request to GitHub.
C15_OneProposalPerWeek ==
    (/\ Truthy(githubToken)
     /\ submitCall # NoRet /\ submitCall.prior # NoRet
     /\ submitCall.at - submitCall.prior.at < OneWeek)
        => submitCall.pc = "done" /\ submitRet = RateLimited

\* What the code does instead: no submit ever fails with the rate-limit error.
NeverRateLimited == submitRet # RateLimited

(***************************************************************************)
(* Properties of the entry point (checked under SpecAdvisor).              *)
(***************************************************************************)
\* Every action a result carries is one of the three kinds the handlers
\* build, and asks for approval.
ActionsRequireApproval ==
    result # NoRet /\ result.kind = "returned"
        => /\ result.hasActions = (Len(result.actions) > 0)
           /\ \A i \in 1..Len(result.actions) :
                 /\ result.actions[i].type \in {"update_config", "remove_skill", "submit_pr"}
                 /\ result.actions[i].requiresApproval = TRUE

\* A step of handleCommand leaves the proposer's calls and the requests sent
\* to GitHub as they were, and the configuration on disk too.
HandleCommandOnlyReports ==
    (<<args, result>>' # <<args, result>>)
        => /\ UNCHANGED <<submitCall, submitRet, forkRequests, lastOk>>
           /\ config' = config

\* A call of submit without a token throws the token error and sends nothing.
SubmitNeedsToken ==
    (submitCall' # submitCall /\ ~Truthy(githubToken))
        => submitRet' = TokenRequired /\ forkRequests' = forkRequests

\* C16: nothing is submitted or applied without the operator's approval:
\* whatever the arguments, handleCommand never calls submit and never writes
\* the configuration, every action it returns carries requiresApproval =
\* true, and submit without a GitHub token fails before any request is sent.
C16_NothingWithoutApproval ==
    /\ []ActionsRequireApproval
    /\ [][HandleCommandOnlyReports /\ SubmitNeedsToken]_vars

\* A draft returned for approval by a context that has a token, with no call
\* of submit made and nothing sent to GitHub.
C16_Witness ==
    /\ result # NoRet /\ result.kind = "returned" /\ result.hasActions
    /\ result.actions[1].type = "submit_pr"
    /\ result.actions[1].requiresApproval = TRUE
    /\ Truthy(githubToken)
    /\ submitCall = NoRet /\ forkRequests = 0

(***************************************************************************)
(* Properties of PatternIndex.fetch (checked under SpecIndex).  A fetch    *)
(* that "succeeded" is one that brought a list from the network;           *)
(* latestFetched is the latest instant at which such a call started.       *)
(***************************************************************************)
\* Call i starts in this step.
FetchStarts(i) == ~InFlight(i) /\ fetches'[i] # fetches[i]

\* Call i throws in this step.
FetchFails(i) ==
    InFlight(i) /\ fetches'[i].pc = "done" /\ fetches'[i].ret.kind = "threw"

\* Call i stores a response in this step.
FetchStores(i) ==
    fetches[i].pc = "body" /\ fetches'[i].pc = "done"
        /\ fetches'[i].ret.kind = "returned"

\* A list was fetched by a call that started less than cacheTtl ago.
FetchedWithinTtl ==
    latestFetched # NoRet /\ now - latestFetched.at < cacheTtl

CachePolicyStep ==
    /\ \A i \in 1..MaxOverlap :
         FetchStarts(i) =>
            /\ FetchedWithinTtl =>
                  /\ fetches'[i].pc = "done"
                  /\ fetches'[i].ret = [kind |-> "returned", value |-> cache]
            /\ (latestFetched # NoRet /\ ~FetchedWithinTtl) =>
                  fetches'[i].pc = "response"
    /\ \A i \in 1..MaxOverlap :
         FetchFails(i) => cache' = cache /\ cacheTime' = cacheTime

\* C17: once a fetch() has succeeded, a later fetch() starting less than 24
\* hours after that one started returns the cached catalog (an empty list
\* too) and sends no request; one starting 24 hours or more after it sends a
\* new request, and when that request fails the call throws and the cached
\* catalog and its timestamp stay as they were.
C17_CachedForADay == [][CachePolicyStep]_vars

\* The same, for as long as no two calls have been in flight at once.
CachedForADayWithoutOverlap == [][~overlapped' => CachePolicyStep]_vars

CacheForwardStep ==
    /\ cacheTime' >= cacheTime
    /\ \A i \in 1..MaxOverlap : FetchStores(i) => fetches[i].at >= cacheTime

\* C18: however overlapping calls of fetch() interleave, the cache's
\* timestamp never moves backwards and the cached catalog is never replaced
\* by the response of a request that started before the one whose response
\* is cached.
C18_CacheNeverGoesBack == [][CacheForwardStep]_vars

\* The same, for as long as no two calls have been in flight at once.
CacheForwardWithoutOverlap == [][~overlapped' => CacheForwardStep]_vars

====
